---- MODULE Spec2Model ----
(***************************************************************************)
(* FS-Nav core (fsnav/core.py): the Aliases table, a dict sub-class whose  *)
(* __setitem__ validates every binding, and the count() utility.           *)
(*                                                                         *)
(* Python strings are modelled as sequences of one-character strings, so   *)
(* that os.path.expanduser, re.match, glob and the path lookups of the     *)
(* operating system are computed character by character.                   *)
(***************************************************************************)
EXTENDS Integers, Sequences, FiniteSets, TLC

VARIABLES aliases, last, items_to_count, counted

vars == <<aliases, last, items_to_count, counted>>

---------------------------------------------------------------------------
(* Bounds of the model. *)

\* Longest positional pair sequence / mapping handed to update().
MaxLen == 2
\* Most keyword bindings handed to update().
MaxKw == 1
\* Longest argument list handed to count().
MaxItems == 2

---------------------------------------------------------------------------
(* Python values. *)

\* Python's None: the one-token sequence, distinct from every string
\* (a string's elements are single characters).
None == <<"None">>

\* Exception kinds raised by the code; NoExc is a normal return.
NoExc == "none"
ValueError == "ValueError"
KeyError == "KeyError"
TypeError == "TypeError"

\* The error kinds of the design, as the code raises them: a null or invalid
\* path raises ValueError (lines 105, 112), an invalid alias KeyError (110).
InvalidPathError == ValueError
InvalidAliasError == KeyError

\* str(...) in, str(...).startswith, str.find, str.rstrip('/').
Contains(s, c) == \E i \in 1..Len(s) : s[i] = c

Find(s, c, from) ==
    IF \E i \in from..Len(s) : s[i] = c
    THEN CHOOSE i \in from..Len(s) : s[i] = c /\ \A j \in from..(i - 1) : s[j] # c
    ELSE 0

RECURSIVE RStripSlash(_)
RStripSlash(s) ==
    IF s # <<>> /\ s[Len(s)] = "/" THEN RStripSlash(SubSeq(s, 1, Len(s) - 1)) ELSE s

---------------------------------------------------------------------------
(* The process environment: $HOME, the working directory, the filesystem. *)

HOME == <<"/", "u">>
CWD == <<"/", "u">>

\* The filesystem, in os.listdir order: each entry is named by its
\* components from the root.  /u is the home directory; /u/k is a directory
\* without execute permission; /u/a and /u/.c are plain files; /u/l is a
\* symbolic link to nothing; /x is an executable file.
FS == <<
    [path |-> <<>>,                 kind |-> "dir",  x |-> TRUE],
    [path |-> << <<"u">> >>,        kind |-> "dir",  x |-> TRUE],
    [path |-> << <<"x">> >>,        kind |-> "file", x |-> TRUE],
    [path |-> << <<"u">>, <<"a">> >>,      kind |-> "file", x |-> FALSE],
    [path |-> << <<"u">>, <<"k">> >>,      kind |-> "dir",  x |-> FALSE],
    [path |-> << <<"u">>, <<"l">> >>,      kind |-> "badlink", x |-> FALSE],
    [path |-> << <<"u">>, <<".", "c">> >>, kind |-> "file", x |-> FALSE]
>>

\* The components of a path string: split at "/", "" and "." dropped.
RECURSIVE Components(_, _)
Components(s, cur) ==
    LET keep == IF cur = <<>> \/ cur = <<".">> THEN <<>> ELSE <<cur>>
    IN  IF s = <<>> THEN keep
        ELSE IF Head(s) = "/" THEN keep \o Components(Tail(s), <<>>)
        ELSE Components(Tail(s), Append(cur, Head(s)))

\* Kernel path resolution: an absolute path from the root, any other from
\* the working directory.
Resolve(p) ==
    IF Head(p) = "/" THEN Components(p, <<>>)
    ELSE Components(CWD, <<>>) \o Components(p, <<>>)

\* stat(2) without following the last link: the entry a path names, if any.
Absent == [path |-> <<>>, kind |-> "absent", x |-> FALSE]

Stat(p) ==
    IF p = <<>> THEN Absent
    ELSE LET c == Resolve(p)
         IN  IF \E i \in 1..Len(FS) : FS[i].path = c
             THEN FS[CHOOSE i \in 1..Len(FS) : FS[i].path = c]
             ELSE Absent

\* os.path.lexists / exists / isdir and os.access(path, os.X_OK).
lexists(p) == Stat(p).kind # "absent"
exists(p) == Stat(p).kind \in {"dir", "file"}
isdir(p) == Stat(p).kind = "dir"
access_X_OK(p) == Stat(p).x

\* os.path.expanduser: "~" and "~/..." take $HOME; "~name" of a user the
\* password database does not know is returned as written.
expanduser(path) ==
    IF path = <<>> \/ Head(path) # "~" THEN path
    ELSE LET f == Find(path, "/", 2)
             i == IF f = 0 THEN Len(path) + 1 ELSE f
         IN  IF i # 2 THEN path
             ELSE LET r == RStripSlash(HOME) \o SubSeq(path, i, Len(path))
                  IN  IF r = <<>> THEN <<"/">> ELSE r

---------------------------------------------------------------------------
(* fsnav.settings, which core.py imports. *)

\* The characters settings.ALIAS_REGEX admits: [A-Za-z0-9_-].
ALIAS_REGEX_CHARS ==
    {"a", "b", "c", "d", "e", "f", "g", "h", "i", "j", "k", "l", "m",
     "n", "o", "p", "q", "r", "s", "t", "u", "v", "w", "x", "y", "z",
     "A", "B", "C", "D", "E", "F", "G", "H", "I", "J", "K", "L", "M",
     "N", "O", "P", "Q", "R", "S", "T", "U", "V", "W", "X", "Y", "Z",
     "0", "1", "2", "3", "4", "5", "6", "7", "8", "9", "_", "-"}

\* re.match(settings.ALIAS_REGEX, alias) is not None: one or more
\* characters, every one of the class.
re_match_ALIAS_REGEX(alias) ==
    /\ Len(alias) >= 1
    /\ \A i \in 1..Len(alias) : alias[i] \in ALIAS_REGEX_CHARS

A_home == <<"h", "o", "m", "e">>
A_w1 == <<"w", "-", "1">>
A_self == <<"s", "e", "l", "f">>
A_alias_iterable ==
    <<"a", "l", "i", "a", "s", "_", "i", "t", "e", "r", "a", "b", "l", "e">>
A_space == <<"a", " ", "b">>
A_star == <<"*">>

\* The names of settings.DEFAULT_ALIASES.
DEFAULT_ALIASES == {A_home}

---------------------------------------------------------------------------
(* class Aliases(dict) *)

\* dict.__init__(self): the empty table.
EmptyDict == [a \in {} |-> <<>>]

\* dict.__setitem__
Put(d, k, v) == [a \in DOMAIN d \cup {k} |-> IF a = k THEN v ELSE d[a]]

\* The outcome of a method: the exception raised (or NoExc), the table the
\* object holds afterwards, and the value returned.
Outcome(e, d, r) == [exc |-> e, dict |-> d, ret |-> r]

\* __setitem__ storing the path as written, after validating its expansion.
setitem_as_written(d, alias, path) ==
    IF path = None
    THEN Outcome(ValueError, d, None)
    ELSE IF ~re_match_ALIAS_REGEX(alias)
    THEN Outcome(KeyError, d, None)
    ELSE IF ~isdir(expanduser(path)) /\ ~access_X_OK(expanduser(path))
    THEN Outcome(ValueError, d, None)
    ELSE Outcome(NoExc, Put(d, alias, path), None)

\* __setitem__ validating the path before the alias.
setitem_path_first(d, alias, path) ==
    IF path = None
    THEN Outcome(ValueError, d, None)
    ELSE IF ~isdir(expanduser(path)) /\ ~access_X_OK(expanduser(path))
    THEN Outcome(ValueError, d, None)
    ELSE IF ~re_match_ALIAS_REGEX(alias)
    THEN Outcome(KeyError, d, None)
    ELSE Outcome(NoExc, Put(d, alias, expanduser(path)), None)

\* __setitem__ validating the alias before it looks at the path at all.
setitem_alias_first(d, alias, path) ==
    IF ~re_match_ALIAS_REGEX(alias)
    THEN Outcome(KeyError, d, None)
    ELSE IF path = None
    THEN Outcome(ValueError, d, None)
    ELSE IF ~isdir(expanduser(path)) /\ ~access_X_OK(expanduser(path))
    THEN Outcome(ValueError, d, None)
    ELSE Outcome(NoExc, Put(d, alias, expanduser(path)), None)

\* Aliases.__setitem__(self, alias, path)
setitem(d, alias, path) ==
    IF path = None
    THEN Outcome(ValueError, d, None)
    ELSE LET p == expanduser(path)
         IN  IF ~re_match_ALIAS_REGEX(alias)
             THEN Outcome(KeyError, d, None)
             ELSE IF ~isdir(p) /\ ~access_X_OK(p)
             THEN Outcome(ValueError, d, None)
             ELSE Outcome(NoExc, Put(d, alias, p), None)

\* setdefault storing the path whether or not the alias is bound, as
\* dict.setdefault would not.
setdefault_overwrites(d, alias, path) ==
    IF setitem(d, alias, path).exc # NoExc
    THEN setitem(d, alias, path)
    ELSE Outcome(NoExc, setitem(d, alias, path).dict, setitem(d, alias, path).dict[alias])

\* Aliases.setdefault(self, alias, path=None)
setdefault(d, alias, path) ==
    IF alias \in DOMAIN d
    THEN Outcome(NoExc, d, d[alias])
    ELSE LET r == setitem(d, alias, path)
         IN  IF r.exc # NoExc THEN r ELSE Outcome(NoExc, r.dict, r.dict[alias])

\* Values handed to update() as alias_iterable: None (or nothing), a mapping
\* (it has keys(); items in iteration order, keys distinct), a sequence of
\* (alias, path) pairs, or a string.
NoArg == [kind |-> "none", items |-> <<>>]
Mapping(items) == [kind |-> "mapping", items |-> items]
Pairs(items) == [kind |-> "pairs", items |-> items]
Str(s) == [kind |-> "str", items |-> s]

\* bool(value): None and empty containers are false.
Truthy(v) == v.kind # "none" /\ v.items # <<>>

\* for alias, path in items: self[alias] = path -- the loop ends at the
\* first exception, which leaves the bindings made so far.
RECURSIVE setitems(_, _)
setitems(d, items) ==
    IF items = <<>> THEN Outcome(NoExc, d, None)
    ELSE LET r == setitem(d, Head(items)[1], Head(items)[2])
         IN  IF r.exc # NoExc THEN r ELSE setitems(r.dict, Tail(items))

\* Aliases.update(self, alias_iterable=None, **alias_path), its parameters
\* bound.  A mapping (line 158) and a sequence of pairs (line 161) are both
\* stored pair by pair, the keyword bindings after them (line 164); the loops
\* end at the first exception.  Iterating a string yields one-character
\* strings, and unpacking one into (alias, path) raises ValueError.
update(d, alias_iterable, alias_path) ==
    IF Truthy(alias_iterable) /\ alias_iterable.kind \notin {"mapping", "pairs"}
    THEN Outcome(ValueError, d, None)
    ELSE setitems(d, (IF Truthy(alias_iterable) THEN alias_iterable.items ELSE <<>>)
                     \o alias_path)

\* Keyword arguments: a sequence of (name, value), names distinct.
HasKey(kw, k) == \E i \in 1..Len(kw) : kw[i][1] = k
Get(kw, k) == kw[CHOOSE i \in 1..Len(kw) : kw[i][1] = k][2]
Without(kw, k) == SelectSeq(kw, LAMBDA e : e[1] # k)

\* Python's binding of a call x.update(*args, **kw) to the parameters
\* (self, alias_iterable=None, **alias_path): a keyword named as a
\* parameter is that parameter, and a parameter given twice is a TypeError.
call_update(d, args, kw) ==
    IF \/ HasKey(kw, A_self)
       \/ Len(args) > 1
       \/ Len(args) = 1 /\ HasKey(kw, A_alias_iterable)
    THEN Outcome(TypeError, d, None)
    ELSE update(d,
                IF Len(args) = 1 THEN args[1]
                ELSE IF ~HasKey(kw, A_alias_iterable) THEN NoArg
                ELSE IF Get(kw, A_alias_iterable) = None THEN NoArg
                ELSE Str(Get(kw, A_alias_iterable)),
                Without(kw, A_alias_iterable))

\* Aliases(*args, **kwargs): __init__(self, *args, **kwargs) on a new, empty
\* table; ret is the new table when no exception is raised.
init(args, kw) ==
    IF HasKey(kw, A_self)
    THEN Outcome(TypeError, EmptyDict, EmptyDict)
    ELSE LET r == call_update(EmptyDict, args, kw)
         IN  Outcome(r.exc, r.dict, IF r.exc = NoExc THEN r.dict ELSE EmptyDict)

\* self.items() / dict(self), in the table's iteration order.
RECURSIVE dict_items(_)
dict_items(d) ==
    IF DOMAIN d = {} THEN <<>>
    ELSE LET k == CHOOSE a \in DOMAIN d : TRUE
         IN  << <<k, d[k]>> >> \o dict_items([a \in DOMAIN d \ {k} |-> d[a]])

\* Aliases.copy(self): Aliases(**self.as_dict())
copy(d) == init(<<>>, dict_items(d))

\* user_defined with default()'s test, "a in" for "a not in".
user_defined_as_default(d) ==
    init(<<Mapping(SelectSeq(dict_items(d),
                             LAMBDA e : e[1] \in DEFAULT_ALIASES))>>, <<>>)

\* Aliases.user_defined(self)
user_defined(d) ==
    init(<<Mapping(SelectSeq(dict_items(d),
                             LAMBDA e : e[1] \notin DEFAULT_ALIASES))>>, <<>>)

\* Aliases.default(self)
default(d) ==
    init(<<Mapping(SelectSeq(dict_items(d),
                             LAMBDA e : e[1] \in DEFAULT_ALIASES))>>, <<>>)

---------------------------------------------------------------------------
(* glob.glob, as count() uses it. *)

\* glob.has_magic
has_magic(s) == \E i \in 1..Len(s) : s[i] \in {"*", "?", "["}

RFind(s, c) ==
    IF Contains(s, c) THEN CHOOSE i \in 1..Len(s) : s[i] = c /\ \A j \in (i + 1)..Len(s) : s[j] # c
    ELSE 0

\* os.path.split: <<head, tail>> around the last "/".
path_split(p) ==
    LET i == RFind(p, "/")
        head == SubSeq(p, 1, i)
        tail == SubSeq(p, i + 1, Len(p))
    IN  <<IF RStripSlash(head) = <<>> THEN head ELSE RStripSlash(head), tail>>

\* os.path.join(a, b)
path_join(a, b) ==
    IF b # <<>> /\ Head(b) = "/" THEN b
    ELSE IF a = <<>> \/ a[Len(a)] = "/" THEN a \o b
    ELSE a \o <<"/">> \o b

\* fnmatch.fnmatch(name, pat) for patterns of literals, "*" and "?".
RECURSIVE fnmatch(_, _)
fnmatch(name, pat) ==
    IF pat = <<>> THEN name = <<>>
    ELSE IF Head(pat) = "*"
    THEN fnmatch(name, Tail(pat)) \/ (name # <<>> /\ fnmatch(Tail(name), pat))
    ELSE /\ name # <<>>
         /\ Head(pat) = "?" \/ Head(pat) = Head(name)
         /\ fnmatch(Tail(name), Tail(pat))

\* os.listdir(dirname), [] when it raises.
listdir(dirname) ==
    IF ~isdir(dirname) THEN <<>>
    ELSE LET c == Resolve(dirname)
             kids == SelectSeq(FS, LAMBDA e : Len(e.path) = Len(c) + 1
                                            /\ SubSeq(e.path, 1, Len(c)) = c)
         IN  [i \in 1..Len(kids) |-> kids[i].path[Len(c) + 1]]

\* glob.glob1(dirname, pattern): hidden names only for a pattern with a
\* leading dot.
glob1(dirname, pattern) ==
    LET names == listdir(IF dirname = <<>> THEN <<".">> ELSE dirname)
        shown == IF Head(pattern) # "." THEN SelectSeq(names, LAMBDA n : Head(n) # ".")
                 ELSE names
    IN  SelectSeq(shown, LAMBDA n : fnmatch(n, pattern))

\* glob.glob0(dirname, basename)
glob0(dirname, basename) ==
    IF basename = <<>>
    THEN IF isdir(dirname) THEN <<basename>> ELSE <<>>
    ELSE IF lexists(path_join(dirname, basename)) THEN <<basename>> ELSE <<>>

RECURSIVE Flatten(_)
Flatten(ss) == IF ss = <<>> THEN <<>> ELSE Head(ss) \o Flatten(Tail(ss))

\* glob.glob(pathname): the list of matching paths.
RECURSIVE glob(_)
glob(pathname) ==
    LET dirname == path_split(pathname)[1]
        basename == path_split(pathname)[2]
    IN  IF ~has_magic(pathname)
        THEN IF basename # <<>>
             THEN IF lexists(pathname) THEN <<pathname>> ELSE <<>>
             ELSE IF isdir(dirname) THEN <<pathname>> ELSE <<>>
        ELSE IF dirname = <<>>
        THEN glob1(<<".">>, basename)
        ELSE LET dirs == IF dirname # pathname /\ has_magic(dirname)
                         THEN glob(dirname) ELSE <<dirname>>
                 in_dir(dn) == IF has_magic(basename) THEN glob1(dn, basename)
                               ELSE glob0(dn, basename)
             IN  Flatten([i \in 1..Len(dirs) |->
                            LET ns == in_dir(dirs[i])
                            IN  [j \in 1..Len(ns) |-> path_join(dirs[i], ns[j])]])

---------------------------------------------------------------------------
(* count(items_to_count) *)

\* The list `expanded` built by the loop of lines 221-226.
expand_all(items) ==
    Flatten([i \in 1..Len(items) |->
               glob(IF Contains(items[i], "~") THEN expanduser(items[i])
                    ELSE items[i])])

\* count without set(): the length of the filtered list.
count_list(items) ==
    Len(SelectSeq(expand_all(items), LAMBDA p : exists(p)))

\* len(set([p for p in expanded if os.path.exists(p)]))
count(items) ==
    LET expanded == expand_all(items)
    IN  Cardinality({expanded[i] : i \in {j \in 1..Len(expanded) : exists(expanded[j])}})

---------------------------------------------------------------------------
(* The arguments the operations are called with. *)

P_tilde == <<"~">>
P_home == <<"/", "u">>
P_locked == <<"~", "/", "k">>
P_exe == <<"/", "x">>
P_file == <<"~", "/", "a">>
P_missing == <<"/", "n">>

InsertAliases == {A_home, A_w1, A_self, A_alias_iterable, A_space, A_star}
InsertPaths == {None, P_tilde, P_home, P_locked, P_exe, P_file, P_missing}

SeqsUpTo(S, n) == UNION {[1..k -> S] : k \in 1..n}
DistinctKeys(s) == \A i, j \in 1..Len(s) : i # j => s[i][1] # s[j][1]

MergeEntries ==
    {<<A_home, P_tilde>>, <<A_home, P_exe>>, <<A_w1, P_missing>>, <<A_space, P_tilde>>}
KwEntries ==
    {<<A_w1, P_exe>>, <<A_self, P_tilde>>, <<A_alias_iterable, P_tilde>>}

PositionalArgs ==
    {<<>>}
    \cup {<<Pairs(s)>> : s \in SeqsUpTo(MergeEntries, MaxLen)}
    \cup {<<Mapping(s)>> : s \in {t \in SeqsUpTo(MergeEntries, MaxLen) : DistinctKeys(t)}}
KeywordArgs ==
    {<<>>} \cup {s \in SeqsUpTo(KwEntries, MaxKw) : DistinctKeys(s)}

CountItems ==
    {<<"*">>, <<"a", "*">>, <<"a">>, <<".", "/", "a">>, <<"~", "/">>,
     <<"~", "/", "*">>, <<"l">>, <<"z">>}

---------------------------------------------------------------------------
(* The state machine.  aliases is the table the process holds.  The process
   is single-threaded: it makes a call, takes its outcome, and goes on to the
   next call.  last is the call whose outcome the caller holds: its
   arguments, the table before it, the exception it raised, the path it
   returned (ret) and the table it returned (table); Ready between calls.
   items_to_count and counted are the argument and the result of count(). *)

Ready ==
    [op |-> "ready", alias |-> <<>>, path |-> None, args |-> <<>>, kw |-> <<>>,
     exc |-> NoExc, ret |-> None, table |-> EmptyDict, before |-> EmptyDict]

Call(op, alias, path, args, kw, r, table) ==
    [op |-> op, alias |-> alias, path |-> path, args |-> args, kw |-> kw,
     exc |-> r.exc, ret |-> r.ret, table |-> table, before |-> aliases]

Init ==
    /\ aliases = EmptyDict
    /\ last = Ready
    /\ items_to_count = <<>>
    /\ counted = 0

\* aliases[alias] = path
Insert(alias, path) ==
    LET r == setitem(aliases, alias, path)
    IN  /\ aliases' = r.dict
        /\ last' = Call("Insert", alias, path, <<>>, <<>>, r, EmptyDict)
        /\ UNCHANGED <<items_to_count, counted>>

\* aliases.setdefault(alias, path)
SetDefault(alias, path) ==
    LET r == setdefault(aliases, alias, path)
    IN  /\ aliases' = r.dict
        /\ last' = Call("SetDefault", alias, path, <<>>, <<>>, r, EmptyDict)
        /\ UNCHANGED <<items_to_count, counted>>

\* aliases.update(*args, **kw)
Merge(args, kw) ==
    LET r == call_update(aliases, args, kw)
    IN  /\ aliases' = r.dict
        /\ last' = Call("Merge", <<>>, None, args, kw, r, EmptyDict)
        /\ UNCHANGED <<items_to_count, counted>>

\* Aliases(*args, **kw): a new table, returned when construction succeeds.
Construct(args, kw) ==
    LET r == init(args, kw)
    IN  /\ last' = Call("Construct", <<>>, None, args, kw,
                        Outcome(r.exc, r.dict, None), r.ret)
        /\ UNCHANGED <<aliases, items_to_count, counted>>

\* aliases.copy()
Copy ==
    LET r == copy(aliases)
    IN  /\ last' = Call("Copy", <<>>, None, <<>>, <<>>,
                        Outcome(r.exc, r.dict, None), r.ret)
        /\ UNCHANGED <<aliases, items_to_count, counted>>

\* aliases.user_defined()
UserDefined ==
    LET r == user_defined(aliases)
    IN  /\ last' = Call("UserDefined", <<>>, None, <<>>, <<>>,
                        Outcome(r.exc, r.dict, None), r.ret)
        /\ UNCHANGED <<aliases, items_to_count, counted>>

\* aliases.default()
Default ==
    LET r == default(aliases)
    IN  /\ last' = Call("Default", <<>>, None, <<>>, <<>>,
                        Outcome(r.exc, r.dict, None), r.ret)
        /\ UNCHANGED <<aliases, items_to_count, counted>>

\* count(items)
Count(items) ==
    /\ items_to_count' = items
    /\ counted' = count(items)
    /\ last' = Call("count", <<>>, None, <<>>, <<>>,
                    Outcome(NoExc, EmptyDict, None), EmptyDict)
    /\ UNCHANGED aliases

\* The caller has taken the outcome of the call and goes on.
Return ==
    /\ last # Ready
    /\ last' = Ready
    /\ items_to_count' = <<>>
    /\ counted' = 0
    /\ UNCHANGED aliases

Next ==
    \/ last = Ready /\ \E alias \in InsertAliases, path \in InsertPaths : Insert(alias, path)
    \/ last = Ready /\ \E alias \in InsertAliases, path \in InsertPaths : SetDefault(alias, path)
    \/ last = Ready /\ \E args \in PositionalArgs, kw \in KeywordArgs : Merge(args, kw)
    \/ last = Ready /\ \E args \in PositionalArgs, kw \in KeywordArgs : Construct(args, kw)
    \/ last = Ready /\ Copy
    \/ last = Ready /\ UserDefined
    \/ last = Ready /\ Default
    \/ last = Ready /\ \E items \in {<<>>} \cup SeqsUpTo(CountItems, MaxItems) : Count(items)
    \/ Return

Spec == Init /\ [][Next]_vars

---------------------------------------------------------------------------
(* Properties. *)

\* A path that is an existing directory the process may traverse.
AccessibleDir(p) == isdir(p) /\ access_X_OK(p)

\* An alias with a character outside [A-Za-z0-9_-].
HasForeignChar(alias) == \E i \in 1..Len(alias) : alias[i] \notin ALIAS_REGEX_CHARS

\* Table e is table d with alias a bound to path p, all else as in d.
Rebound(d, e, a, p) ==
    /\ DOMAIN e = DOMAIN d \cup {a}
    /\ e[a] = p
    /\ \A b \in DOMAIN d \ {a} : e[b] = d[b]

\* The bindings of d whose alias is in S.
Restrict(d, S) == [a \in DOMAIN d \cap S |-> d[a]]

C2_InsertInvalidPath ==
    (/\ last.op = "Insert"
     /\ re_match_ALIAS_REGEX(last.alias)
     /\ last.path # None
     /\ ~AccessibleDir(expanduser(last.path)))
    => /\ last.exc = InvalidPathError
       /\ aliases = last.before

\* C3, as claimed: Insert with an alias that has a character outside the
\* pattern fails with InvalidAliasError, the table unchanged, whatever the
\* path argument, null included.
C3_Original ==
    (last.op = "Insert" /\ HasForeignChar(last.alias))
    => /\ last.exc = InvalidAliasError
       /\ InvalidAliasError # InvalidPathError
       /\ aliases = last.before

\* C3, amended: Insert with an alias that has a character outside the
\* pattern and any non-null path, valid or invalid, fails with
\* InvalidAliasError, an error kind other than InvalidPathError, the table
\* unchanged.
C3_InsertInvalidAlias ==
    (last.op = "Insert" /\ HasForeignChar(last.alias) /\ last.path # None)
    => /\ last.exc = InvalidAliasError
       /\ InvalidAliasError # InvalidPathError
       /\ aliases = last.before

\* C3 witness: Insert("a b", "/n"), alias and path both invalid, on a
\* table with bindings raised the alias error.
C3_Witness ==
    /\ last.op = "Insert" /\ last.alias = A_space /\ last.path = P_missing
    /\ last.exc = KeyError
    /\ DOMAIN aliases # {}

\* C4: Insert(a, None) fails with InvalidPathError, the table unchanged,
\* for every alias a: valid or not, bound or not.
C4_InsertNone ==
    (last.op = "Insert" /\ last.path = None)
    => /\ last.exc = InvalidPathError
       /\ aliases = last.before

\* C4 witness: Insert("*", None) on a table with bindings raised the path
\* error, not the alias error.
C4_Witness ==
    /\ last.op = "Insert" /\ last.alias = A_star /\ last.path = None
    /\ last.exc = ValueError
    /\ A_home \in DOMAIN aliases

\* C5: Copy() of any table built by successful Inserts succeeds and returns
\* a table with exactly the bindings of the original.
C5_Copy ==
    last.op = "Copy" => last.exc = NoExc /\ last.table = last.before

\* C6: UserDefined() returns exactly the bindings whose alias is not in the
\* default-name set, Default() exactly those whose alias is in it; the two
\* share no alias, together they are the table, and computing either leaves
\* the table unchanged.
C6_Partition ==
    /\ last.op = "UserDefined" =>
          /\ last.exc = NoExc /\ aliases = last.before
          /\ last.table = Restrict(aliases, DOMAIN aliases \ DEFAULT_ALIASES)
          /\ DOMAIN last.table \cap DOMAIN default(aliases).ret = {}
          /\ DOMAIN last.table \cup DOMAIN default(aliases).ret = DOMAIN aliases
          /\ \A a \in DOMAIN default(aliases).ret : default(aliases).ret[a] = aliases[a]
    /\ last.op = "Default" =>
          /\ last.exc = NoExc /\ aliases = last.before
          /\ last.table = Restrict(aliases, DEFAULT_ALIASES)
          /\ DOMAIN last.table \cap DOMAIN user_defined(aliases).ret = {}
          /\ DOMAIN last.table \cup DOMAIN user_defined(aliases).ret = DOMAIN aliases
          /\ \A a \in DOMAIN user_defined(aliases).ret :
                user_defined(aliases).ret[a] = aliases[a]

\* C6 witness: UserDefined() of a table binding home, w-1 and self returned
\* the two that are not default names.
C6_Witness ==
    /\ last.op = "UserDefined"
    /\ DOMAIN aliases = {A_home, A_w1, A_self}
    /\ DOMAIN last.table = {A_w1, A_self}

\* C7: SetDefault(alias, path) on a bound alias returns the bound path and
\* changes nothing, whatever the path; on an unbound alias it is
\* Insert(alias, path): success binds the alias to the expanded path and
\* returns it, failure raises Insert's error and changes nothing, and an
\* omitted path is InvalidPathError.
C7_SetDefault ==
    last.op = "SetDefault" =>
        IF last.alias \in DOMAIN last.before
        THEN /\ last.exc = NoExc
             /\ last.ret = last.before[last.alias]
             /\ aliases = last.before
        ELSE /\ last.exc = setitem(last.before, last.alias, last.path).exc
             /\ aliases = setitem(last.before, last.alias, last.path).dict
             /\ last.exc = NoExc =>
                   /\ Rebound(last.before, aliases, last.alias, expanduser(last.path))
                   /\ last.ret = expanduser(last.path)
             /\ last.exc # NoExc => aliases = last.before
             /\ last.path = None => last.exc = InvalidPathError

\* C7 witness: SetDefault("home", "/n") on a table that binds home returned
\* the bound path, although /n does not exist.
C7_Witness ==
    /\ last.op = "SetDefault" /\ last.alias = A_home /\ last.path = P_missing
    /\ A_home \in DOMAIN last.before
    /\ last.exc = NoExc /\ last.ret = P_home

\* The entries of a Merge in order: the positional mapping or pairs, then
\* the keyword bindings.
MergeEntriesOf(args, kw) == (IF args = <<>> THEN <<>> ELSE args[1].items) \o kw

\* Insert entry after entry, stopping at the first that fails.
RECURSIVE InsertInOrder(_, _)
InsertInOrder(d, entries) ==
    IF entries = <<>> THEN Outcome(NoExc, d, None)
    ELSE IF setitem(d, Head(entries)[1], Head(entries)[2]).exc # NoExc
    THEN setitem(d, Head(entries)[1], Head(entries)[2])
    ELSE InsertInOrder(setitem(d, Head(entries)[1], Head(entries)[2]).dict, Tail(entries))

\* C8: Merge inserts its entries one at a time through Insert, positional
\* entries first in the order given, keyword bindings after them; it fails
\* with the error of the first entry that fails validation, and the table then
\* holds its prior bindings overwritten by the entries before that one.
C8_Merge ==
    last.op = "Merge" =>
        /\ last.exc = InsertInOrder(last.before, MergeEntriesOf(last.args, last.kw)).exc
        /\ aliases = InsertInOrder(last.before, MergeEntriesOf(last.args, last.kw)).dict

\* Every alias of d matches the naming pattern and is bound to a non-null
\* path that is an existing accessible directory.
ValidTable(d) ==
    \A a \in DOMAIN d : re_match_ALIAS_REGEX(a) /\ d[a] # None /\ AccessibleDir(d[a])

\* C10: in every state reached by Construct, Insert, SetDefault, Merge,
\* Copy, UserDefined and Default calls, failed ones included, every alias
\* bound in the table, and in every table a call returned, matches the naming
\* pattern, and its path is non-null and an existing accessible directory.
C10_TableInvariant == ValidTable(aliases) /\ ValidTable(last.table)

\* The filesystem entry a path names.
EntryOf(p) == Resolve(p)

\* The set of paths the expressions expand to, home shorthand first, then
\* wildcards.
Expansions(items) ==
    UNION {{glob(expanduser(items[i]))[j] : j \in 1..Len(glob(expanduser(items[i])))}
           : i \in 1..Len(items)}

\* C9, as claimed: count returns the number of distinct existing filesystem
\* entries among the expansions, two expressions that expand to the same
\* entry counted once.
C9_Original ==
    last.op = "count" =>
    counted = Cardinality({EntryOf(p) : p \in {q \in Expansions(items_to_count) : exists(q)}})

\* C9, amended: count returns the number of distinct expanded path strings
\* that exist; the empty input gives 0, an expression naming nothing gives
\* nothing, a repeated expression counts once.
C9_Count ==
    last.op = "count" =>
    /\ counted = Cardinality({q \in Expansions(items_to_count) : exists(q)})
    /\ items_to_count = <<>> => counted = 0
    /\ (\A i \in 1..Len(items_to_count) : Expansions(<<items_to_count[i]>>) = {})
          => counted = 0
    /\ (Len(items_to_count) = 2 /\ items_to_count[1] = items_to_count[2])
          => counted = Cardinality({q \in Expansions(<<items_to_count[1]>>) : exists(q)})

\* C9 witness: count(["*", "a*"]) is 2: a is matched by both and counted
\* once, k once, and the dangling link l not at all.
C9_Witness ==
    /\ last.op = "count"
    /\ items_to_count = << <<"*">>, <<"a", "*">> >>
    /\ counted = 2

====
